---- MODULE Spec2Model ----
(***************************************************************************)
(* A model of the ebisim dashboard (dashboard.py): the lru_cache-wrapped   *)
(* simulation call used by update_csevo, the population normalizer, the    *)
(* time slice (update_distr), the peak times (update_highest) and the two  *)
(* ctrl_abtime callbacks.                                                  *)
(***************************************************************************)
EXTENDS Integers, Sequences, FiniteSets, TLC

\* ---------------------------------------------------------------- bounds
\* Capacity of one lru_cache instance.  The program uses maxsize=128
\* (dashboard.py:15-31); the model keeps the policy and scales the number.
maxsize == 2
\* Cap on the number of runs of the external simulation in one behaviour.
MaxRuns == 4
\* Simulation results fed to the normalizer: charge states, time steps,
\* largest population of one charge state at one time step.
NumCS == 2
MaxSteps == 2
MaxPop == 2
\* Figures fed to update_distr and update_highest: samples per series, last
\* grid time (s), largest sample value.
MaxLen == 3
MaxX == 2
MaxY == 1
\* Largest breeding time the user enters.
MaxBr == 3

\* ------------------------------------------------------- program constants
\* The element dropdown offers range(2, 106) (dashboard.py:46).
ZMin == 2
ZMax == 105
\* "time /= 1000" (dashboard.py:309): the controls are in ms, the grid in s.
MsPerSecond == 1000

\* Python's None as a result, and "no call" markers of the model
None == [z |-> 0, gen |-> 0]
NoArg == 0
Workers == {"t1", "t2"}

\* Parameter tuples a callback may receive, named by their species z (the other
\* fields of the lru_cache key, j, e_kin, tmax, dr_fwhm and CNI, are passed on
\* the same way).  z = 1 lies below the dropdown's range; nothing in the
\* callbacks checks it.  Whether ebisim raises is a function of the tuple: the
\* set fails, any subset of the tuples.  cached_eixs, cached_rrxs and
\* cached_drxs are wrapped by the same decorator and called the same way by
\* update_eixs, update_rrxs and update_drxs.
NumSpecies == maxsize + 2
Species == 1..NumSpecies
InDomain(z) == ZMin <= z /\ z <= ZMax

VARIABLES
    fails,      \* the parameter tuples for which ebisim.basic_simulation raises
    cache,      \* cached_basic_sim's entries, least recently used first
    pc,         \* per server thread: "idle" or "computing" (inside ebisim)
    arg,        \* per server thread: the key of the call in progress
    out,        \* what the update_csevo that finished last returned
    execs,      \* history: runs of ebisim.basic_simulation per key
    evicted,    \* history: evictions per key
    useOrder,   \* history: keys by last hit or insertion, oldest first
    simres,     \* the simulation result update_csevo got (t, N)
    data,       \* the "data" list update_csevo built from it
    csevo,      \* plot_csevo's figure as update_distr/update_highest get it
    time,       \* ctrl_abtime's value given to the last update_distr (ms)
    distr,      \* plot_distr's figure
    highest,    \* plot_highest's figure
    brtime,     \* ctrl_brtime.value
    abtime,     \* ctrl_abtime.value
    abmax,      \* ctrl_abtime.max
    reqClip,    \* the dispatched, not yet answered call of ctrl_abtime_clip
    reqMax,     \* the dispatched, not yet answered call of ctrl_abtime_max
    clipped     \* history: the State value the last answered clip was given

cacheVars == <<fails, cache, pc, arg, out, execs, evicted, useOrder>>
normVars == <<simres, data>>
figVars == <<csevo, time, distr, highest>>
uiVars == <<brtime, abtime, abmax, reqClip, reqMax, clipped>>
vars == <<cacheVars, normVars, figVars, uiVars>>

\* ------------------------------------------------------------- lru_cache
CacheKeys(c) == {c[i].key : i \in DOMAIN c}

IndexOf(c, k) == CHOOSE i \in DOMAIN c : c[i].key = k

Without(s, i) == [j \in 1..(Len(s) - 1) |-> IF j < i THEN s[j] ELSE s[j + 1]]

\* A hit returns the stored result ...
LruGet(c, k) == c[IndexOf(c, k)].val

\* (a cache that keeps insertion order on a hit: first in, first out)
LruTouchNoMove(c, k) == c

\* ... and makes the entry the most recently used one.
LruTouch(c, k) == Append(Without(c, IndexOf(c, k)), c[IndexOf(c, k)])

\* (a wrapper that forgets to store)
LruStoreNothing(c, k, v) == c

\* After the wrapped function returned: the key may have been added while it
\* ran (then nothing is stored), a full cache drops its oldest entry.
LruStore(c, k, v) ==
    IF k \in CacheKeys(c) THEN c
    ELSE IF Len(c) >= maxsize THEN Append(Tail(c), [key |-> k, val |-> v])
    ELSE Append(c, [key |-> k, val |-> v])

\* (a wrapper that memoizes the failed call as well)
LruOnRaiseStores(c, k) == LruStore(c, k, None)

\* The wrapped function raised: the exception passes through the wrapper.
LruOnRaise(c, k) == c

\* bookkeeping of the history variables
RECURSIVE SumTo(_, _)
SumTo(f, n) == IF n = 0 THEN 0 ELSE f[n] + SumTo(f, n - 1)
Runs == SumTo(execs, NumSpecies)

SeqWithout(s, k) == SelectSeq(s, LAMBDA e : e # k)
Used(s, k) == Append(SeqWithout(s, k), k)

\* --------------------------------------------------------- update_csevo
\* ebisim.basic_simulation's result object: a fresh object per run.
NewResult(z, n) == [z |-> z, gen |-> n]

\* data = [] ; if res: one series per charge state (stood for by one entry)
FigureData(res) == IF res = None THEN << >> ELSE <<res>>

Figure(z, res, hit, raised) ==
    [z |-> z, res |-> res, hit |-> hit, raised |-> raised,
     ret |-> "figure", data |-> FigureData(res)]

NoCall ==
    [z |-> NoArg, res |-> None, hit |-> FALSE, raised |-> FALSE,
     ret |-> "none", data |-> << >>]

\* The parts of the program a specification leaves alone.
CacheIdle ==
    /\ fails = {} /\ cache = << >> /\ useOrder = << >>
    /\ pc = [w \in Workers |-> "idle"]
    /\ arg = [w \in Workers |-> NoArg]
    /\ out = NoCall
    /\ execs = [z \in Species |-> 0]
    /\ evicted = [z \in Species |-> 0]

NoResult == [t |-> << >>, N |-> << >>]
NoFigure == [done |-> FALSE, x |-> << >>, y |-> << >>]
NoReq == [on |-> FALSE, tmax |-> 0, tcur |-> 0]
NormIdle == simres = NoResult /\ data = << >>
FigIdle == csevo = << >> /\ time = 0 /\ distr = NoFigure /\ highest = NoFigure
UiIdle ==
    /\ brtime = 0 /\ abtime = 0 /\ abmax = 0
    /\ reqClip = NoReq /\ reqMax = NoReq /\ clipped = NoReq

InitCache ==
    /\ fails \in SUBSET Species
    /\ cache = << >>
    /\ pc = [w \in Workers |-> "idle"]
    /\ arg = [w \in Workers |-> NoArg]
    /\ out = NoCall
    /\ execs = [z \in Species |-> 0]
    /\ evicted = [z \in Species |-> 0]
    /\ useOrder = << >>
    /\ NormIdle /\ FigIdle /\ UiIdle

\* update_csevo(z, ...) finds the key in the cache: the whole callback runs.
CallHit(w, z) ==
    /\ pc[w] = "idle"
    /\ z \in CacheKeys(cache)
    /\ out' = Figure(z, LruGet(cache, z), TRUE, FALSE)
    /\ cache' = LruTouch(cache, z)
    /\ useOrder' = Used(useOrder, z)
    /\ UNCHANGED <<fails, pc, arg, execs, evicted>>
    /\ UNCHANGED <<normVars, figVars, uiVars>>

\* update_csevo(z, ...) misses: the thread enters ebisim.basic_simulation.
CallMiss(w, z) ==
    /\ pc[w] = "idle"
    /\ z \notin CacheKeys(cache)
    /\ Runs < MaxRuns
    /\ pc' = [pc EXCEPT ![w] = "computing"]
    /\ arg' = [arg EXCEPT ![w] = z]
    /\ execs' = [execs EXCEPT ![z] = @ + 1]
    /\ UNCHANGED <<fails, cache, out, evicted, useOrder>>
    /\ UNCHANGED <<normVars, figVars, uiVars>>

\* The simulation returns; the wrapper stores, the callback builds the figure.
SimReturn(w) ==
    /\ pc[w] = "computing"
    /\ arg[w] \notin fails
    /\ LET z == arg[w]
           res == NewResult(z, execs[z])
           full == z \notin CacheKeys(cache) /\ Len(cache) >= maxsize
       IN /\ cache' = LruStore(cache, z, res)
          /\ evicted' = IF full THEN [evicted EXCEPT ![cache[1].key] = @ + 1]
                        ELSE evicted
          /\ useOrder' = IF z \in CacheKeys(cache) THEN useOrder
                         ELSE Used(useOrder, z)
          /\ out' = Figure(z, res, FALSE, FALSE)
    /\ pc' = [pc EXCEPT ![w] = "idle"]
    /\ arg' = [arg EXCEPT ![w] = NoArg]
    /\ UNCHANGED <<fails, execs>>
    /\ UNCHANGED <<normVars, figVars, uiVars>>

\* The simulation raises; "except: res = None" turns it into an empty figure.
SimRaise(w) ==
    /\ pc[w] = "computing"
    /\ arg[w] \in fails
    /\ cache' = LruOnRaise(cache, arg[w])
    /\ out' = Figure(arg[w], None, FALSE, TRUE)
    /\ pc' = [pc EXCEPT ![w] = "idle"]
    /\ arg' = [arg EXCEPT ![w] = NoArg]
    /\ UNCHANGED <<fails, execs, evicted, useOrder>>
    /\ UNCHANGED <<normVars, figVars, uiVars>>

Next ==
    \E w \in Workers :
        \/ \E z \in Species : CallHit(w, z)
        \/ \E z \in Species : CallMiss(w, z)
        \/ SimReturn(w)
        \/ SimRaise(w)

Spec == InitCache /\ [][Next]_vars

\* One server thread: the callbacks run one after the other.
NextSeq ==
    \/ \E z \in Species : CallHit("t1", z)
    \/ \E z \in Species : CallMiss("t1", z)
    \/ SimReturn("t1")
    \/ SimRaise("t1")

SpecSeq == InitCache /\ [][NextSeq]_vars

\* ------------------------------------------- update_csevo: normalizer
\* Numbers that are not integers are kept exact as <<numerator, denominator>>
\* with a positive denominator; a zero denominator is what IEEE division by
\* zero gives: nan for 0/0, inf for a positive numerator.
NaN == <<0, 0>>
Inf == <<1, 0>>
NegInf == <<-1, 0>>

RatOf(n) == <<n, 1>>
IsFinite(p) == p[2] # 0
RatEq(p, q) == IsFinite(p) /\ IsFinite(q) /\ p[1] * q[2] = q[1] * p[2]
RatLt(p, q) == IsFinite(p) /\ IsFinite(q) /\ p[1] * q[2] < q[1] * p[2]
RatLe(p, q) == RatLt(p, q) \/ RatEq(p, q)
RatAdd(p, q) == <<p[1] * q[2] + q[1] * p[2], p[2] * q[2]>>

\* numpy's elementwise "/": a warning, never an exception, on a zero divisor
Divide(a, b) ==
    IF b # 0 THEN <<a, b>>
    ELSE IF a = 0 THEN NaN
    ELSE IF a > 0 THEN Inf ELSE NegInf

RECURSIVE SumRows(_, _, _)
SumRows(N, cs, t) == IF cs = 0 THEN 0 ELSE N[cs][t] + SumRows(N, cs - 1, t)

\* (a total that leaves out the neutral charge state, row 0)
SumAxis0SkipNeutral(N, t) == SumRows(N, Len(N), t) - N[1][t]

\* res.N.sum(axis=0) at time step t
SumAxis0(N, t) == SumRows(N, Len(N), t)

\* str(cs) + "+"
SeriesName(cs) == ToString(cs) \o "+"

\* the loop over range(res.N.shape[0]); row cs of N is N[cs + 1]
NormalizedData(r) ==
    [i \in 1..Len(r.N) |->
        [x |-> r.t,
         y |-> [t \in 1..Len(r.t) |-> Divide(r.N[i][t], SumAxis0(r.N, t))],
         name |-> SeriesName(i - 1),
         type |-> "line"]]

\* A result of ebisim.basic_simulation: NumCS charge states, a strictly
\* increasing time grid of n steps, the non-negative populations m.
SimResult(n, m) == [t |-> [i \in 1..n |-> i - 1], N |-> m]

InitNorm ==
    /\ \E n \in 1..MaxSteps :
         \E m \in [1..NumCS -> [1..n -> 0..MaxPop]] : simres = SimResult(n, m)
    /\ data = << >>
    /\ CacheIdle /\ FigIdle /\ UiIdle

\* update_csevo from "data = []" on, given a result that is not None
BuildData ==
    /\ data = << >>
    /\ data' = NormalizedData(simres)
    /\ UNCHANGED <<simres, cacheVars, figVars, uiVars>>

NextNorm == BuildData

SpecNorm == InitNorm /\ [][NextNorm]_vars

\* ------------------------------------- update_distr and update_highest
\* [(np.array(line["x"]), np.array(line["y"])) for line in figure["data"]]
figure_to_data(figure) == [i \in DOMAIN figure |-> <<figure[i].x, figure[i].y>>]

\* list(range(n))
Range(n) == [i \in 1..n |-> i - 1]

\* the segment of the grid xp that holds q: the last j with xp[j] <= q
Bracket(q, xp) ==
    CHOOSE j \in DOMAIN xp :
        /\ RatLe(RatOf(xp[j]), q)
        /\ j < Len(xp) => RatLt(q, RatOf(xp[j + 1]))

\* the straight line through samples j and j + 1, taken at q
OnSegment(q, xp, fp, j) ==
    <<(fp[j + 1] - fp[j]) * (q[1] - xp[j] * q[2]) + fp[j] * (xp[j + 1] - xp[j]) * q[2],
      (xp[j + 1] - xp[j]) * q[2]>>

\* (an interpolation that runs the end segments on beyond the grid)
InterpExtrapolating(q, xp, fp) ==
    IF Len(xp) = 1 THEN RatOf(fp[1])
    ELSE IF RatLt(q, RatOf(xp[1])) THEN OnSegment(q, xp, fp, 1)
    ELSE IF RatLe(RatOf(xp[Len(xp)]), q) THEN OnSegment(q, xp, fp, Len(xp) - 1)
    ELSE OnSegment(q, xp, fp, Bracket(q, xp))

\* np.interp(q, xp, fp) with its default left and right values
Interp(q, xp, fp) ==
    IF RatLt(q, RatOf(xp[1])) THEN RatOf(fp[1])
    ELSE IF RatLt(RatOf(xp[Len(xp)]), q) THEN RatOf(fp[Len(xp)])
    ELSE LET j == Bracket(q, xp)
         IN IF j = Len(xp) \/ RatEq(RatOf(xp[j]), q) THEN RatOf(fp[j])
            ELSE OnSegment(q, xp, fp, j)

RECURSIVE ArgMaxLastFrom(_, _, _)
ArgMaxLastFrom(a, i, best) ==
    IF i > Len(a) THEN best
    ELSE ArgMaxLastFrom(a, i + 1, IF a[i] >= a[best] THEN i ELSE best)

\* (an argmax that keeps the last of several equal maxima)
ArgMaxLast(a) == ArgMaxLastFrom(a, 2, 1)

RECURSIVE ArgMaxFrom(_, _, _)
ArgMaxFrom(a, i, best) ==
    IF i > Len(a) THEN best
    ELSE ArgMaxFrom(a, i + 1, IF a[i] > a[best] THEN i ELSE best)

\* np.argmax(a), as an index from 1
ArgMax(a) == ArgMaxFrom(a, 2, 1)

\* Time grids: strictly increasing, in seconds.
Grids ==
    {g \in UNION {[1..n -> 0..MaxX] : n \in 1..MaxLen} :
        \A i \in 1..(Len(g) - 1) : g[i] < g[i + 1]}

\* A plot_csevo figure: two series on one grid, as update_csevo builds them
\* ("x": res.t for every series).
CsevoData(g, ys) == [i \in 1..2 |-> [x |-> g, y |-> ys[i]]]

\* Values of ctrl_abtime (ms): every half second up to beyond the grid.
Times == {500 * i : i \in 0..(2 * MaxX + 2)}

InitFig ==
    /\ \/ csevo = << >>
       \/ \E g \in Grids :
            \E ys \in [1..2 -> [1..Len(g) -> 0..MaxY]] : csevo = CsevoData(g, ys)
    /\ time = 0
    /\ distr = NoFigure
    /\ highest = NoFigure
    /\ CacheIdle /\ NormIdle /\ UiIdle

update_distr(ms) ==
    /\ LET d == figure_to_data(csevo)
           q == <<ms, MsPerSecond>>
           slice == [i \in DOMAIN d |-> Interp(q, d[i][1], d[i][2])]
       IN distr' = [done |-> TRUE, x |-> Range(Len(slice)), y |-> slice]
    /\ time' = ms
    /\ UNCHANGED <<csevo, highest, cacheVars, normVars, uiVars>>

update_highest ==
    /\ LET d == figure_to_data(csevo)
           tmax == [i \in DOMAIN d |-> d[i][1][ArgMax(d[i][2])]]
       IN highest' = [done |-> TRUE, x |-> Range(Len(tmax)), y |-> tmax]
    /\ UNCHANGED <<csevo, time, distr, cacheVars, normVars, uiVars>>

NextFig ==
    \/ \E ms \in Times : update_distr(ms)
    \/ update_highest

SpecFig == InitFig /\ [][NextFig]_vars

\* ------------------------------------- ctrl_abtime_max, ctrl_abtime_clip
\* (a clip with the comparison turned round)
ctrl_abtime_clip_reversed(tmax, tcur) == IF tcur > tmax THEN tcur ELSE tmax

ctrl_abtime_clip(tmax, tcur) == IF tcur < tmax THEN tcur ELSE tmax

ctrl_abtime_max(tmax) == tmax

\* The page as laid out: a breeding time, a query time within it, the query
\* input's max equal to it; Dash calls every callback once on load.
InitUi ==
    /\ brtime \in 1..MaxBr
    /\ abtime \in 0..brtime
    /\ abmax = brtime
    /\ reqClip = [on |-> TRUE, tmax |-> brtime, tcur |-> abtime]
    /\ reqMax = [on |-> TRUE, tmax |-> brtime, tcur |-> 0]
    /\ clipped = NoReq
    /\ CacheIdle /\ NormIdle /\ FigIdle

\* The user commits a new breeding time (min=1): both callbacks are
\* dispatched with the Input, and the State as it is now; a call still
\* unanswered is superseded.
SetBrtime(v) ==
    /\ v # brtime
    /\ brtime' = v
    /\ reqClip' = [on |-> TRUE, tmax |-> v, tcur |-> abtime]
    /\ reqMax' = [on |-> TRUE, tmax |-> v, tcur |-> 0]
    /\ clipped' = NoReq
    /\ UNCHANGED <<abtime, abmax, cacheVars, normVars, figVars>>

\* The user commits a new query time, within the input's min=0 and max.
SetAbtime(v) ==
    /\ v # abtime
    /\ v <= abmax
    /\ abtime' = v
    /\ clipped' = NoReq
    /\ UNCHANGED <<brtime, abmax, reqClip, reqMax, cacheVars, normVars, figVars>>

\* ctrl_abtime_clip runs and its return value becomes ctrl_abtime.value.
AnswerClip ==
    /\ reqClip.on
    /\ abtime' = ctrl_abtime_clip(reqClip.tmax, reqClip.tcur)
    /\ clipped' = reqClip
    /\ reqClip' = NoReq
    /\ UNCHANGED <<brtime, abmax, reqMax, cacheVars, normVars, figVars>>

\* ctrl_abtime_max runs and its return value becomes ctrl_abtime.max.
AnswerMax ==
    /\ reqMax.on
    /\ abmax' = ctrl_abtime_max(reqMax.tmax)
    /\ reqMax' = NoReq
    /\ UNCHANGED <<brtime, abtime, reqClip, clipped, cacheVars, normVars, figVars>>

NextUi ==
    \/ \E v \in 1..MaxBr : SetBrtime(v)
    \/ \E v \in 0..MaxBr : SetAbtime(v)
    \/ AnswerClip
    \/ AnswerMax

SpecUi == InitUi /\ [][NextUi]_vars

\* ------------------------------------------------------------------ claims
\* The key the history of uses names as least recently used among `keys`.
OldestUsed(order, keys) ==
    order[CHOOSE i \in DOMAIN order :
            /\ order[i] \in keys
            /\ \A j \in 1..(i - 1) : order[j] \notin keys]

EntryOf(c, k) == c[IndexOf(c, k)]

\* C1 (as claimed): for parameters the simulation accepts, whatever the
\* sequence of calls, the external simulation runs at most once per tuple.
C1_ExecutedOnce ==
    \A z \in Species : (InDomain(z) /\ z \notin fails) => execs[z] <= 1

\* C1 (amended): with the calls made one after the other, the simulation runs
\* for a tuple once plus once per eviction of its entry; every entry holds the
\* object of the tuple's latest run, and a successful call leaves its key
\* cached with the very object it returned.
C1_OncePerResidency ==
    /\ \A z \in Species : z \notin fails => execs[z] <= 1 + evicted[z]
    /\ \A i \in DOMAIN cache :
          cache[i].val = NewResult(cache[i].key, execs[cache[i].key])
    /\ (out.ret = "figure" /\ ~out.raised) =>
          /\ out.z \in CacheKeys(cache)
          /\ LruGet(cache, out.z) = out.res

\* C1 witness: a second call with equal parameters was served from the cache
\* with the first run's object, and another tuple was evicted and run again.
C1_Witness ==
    /\ out.hit
    /\ execs[out.z] = 1
    /\ out.res = NewResult(out.z, 1)
    /\ \E z \in Species : evicted[z] = 1 /\ execs[z] = 2

\* C2 (as claimed): two threads never run the simulation for the same key at
\* the same time (the second waits for the first).
C2_SingleFlight ==
    \A v, w \in Workers :
        (v # w /\ pc[v] = "computing" /\ pc[w] = "computing") => arg[v] # arg[w]

\* C3 (as claimed): a failed simulation reaches the caller as a
\* SimulationError, never as a figure with an empty data list.
C3_TypedError ==
    out.raised => (out.ret = "SimulationError" /\ ~(out.ret = "figure" /\ out.data = << >>))

\* C4: a failed computation is never stored: no entry belongs to a failing
\* key or holds a failure, after a failed call the key is not cached, and no
\* call for a failing key is ever answered from the cache.
C4_FailureNotCached ==
    /\ \A i \in DOMAIN cache : cache[i].key \notin fails /\ cache[i].val # None
    /\ out.raised => out.z \notin CacheKeys(cache)
    /\ out.hit => out.z \notin fails

\* C4 witness: a call for a key failed after that key had failed before: the
\* simulation was run again for it.
C4_Witness ==
    out.raised /\ execs[out.z] >= 2 /\ out.z \notin CacheKeys(cache)

\* the size bound, and no key twice
C5_Capacity ==
    /\ Len(cache) <= maxsize
    /\ Cardinality(CacheKeys(cache)) = Len(cache)

\* a step that changes the key set of a full cache
C5_EvictsOldest ==
    (Len(cache) = maxsize /\ CacheKeys(cache') # CacheKeys(cache)) =>
        LET lru == OldestUsed(useOrder, CacheKeys(cache))
        IN /\ lru \notin CacheKeys(cache')
           /\ CacheKeys(cache) \ {lru} \subseteq CacheKeys(cache')
           /\ Len(cache') = maxsize
           /\ \A k \in CacheKeys(cache) \ {lru} :
                 EntryOf(cache', k) = EntryOf(cache, k)

\* C5: a cache never holds more than maxsize entries nor a key twice, and a
\* step that adds a key to a full cache drops exactly the key whose last hit
\* or insertion is oldest, keeping every other entry as it was.
C5_BoundedLru == []C5_Capacity /\ [][C5_EvictsOldest]_vars

\* C5 witness: a full cache after a miss evicted an entry, the last call
\* before it having been a hit that changed which entry was the oldest.
C5_Witness ==
    /\ Len(cache) = maxsize
    /\ \E z \in Species : evicted[z] >= 1 /\ z \notin CacheKeys(cache)
    /\ Len(useOrder) > maxsize

\* C6 (as claimed): an out-of-domain parameter reaches neither the memoized
\* call nor the simulation, and never becomes a cache entry.
C6_Rejected ==
    /\ \A w \in Workers : pc[w] = "computing" => InDomain(arg[w])
    /\ \A k \in CacheKeys(cache) : InDomain(k)
    /\ \A z \in Species : ~InDomain(z) => execs[z] = 0
\* the population total of time step t, summed from the result itself
RECURSIVE C9_Total(_, _)
C9_Total(cs, t) == IF cs = 0 THEN 0 ELSE simres.N[cs][t] + C9_Total(cs - 1, t)

RECURSIVE C9_SumY(_, _)
C9_SumY(i, t) == IF i = 0 THEN RatOf(0) ELSE RatAdd(data[i].y[t], C9_SumY(i - 1, t))

\* C9: the data list has one series per charge state in ascending order, each
\* on the result's time grid; at a time step with a nonzero total every sample
\* is population / total and the samples of all charge states sum to 1; at a
\* time step with a zero total the samples are undefined (nan) and the other
\* time steps are not affected.
C9_Normalized ==
    data # << >> =>
        /\ Len(data) = Len(simres.N)
        /\ \A i \in DOMAIN data :
              /\ data[i].name = ToString(i - 1) \o "+"
              /\ data[i].x = simres.t
              /\ Len(data[i].y) = Len(simres.t)
        /\ \A t \in DOMAIN simres.t :
              LET total == C9_Total(Len(simres.N), t)
              IN IF total # 0
                 THEN /\ \A i \in DOMAIN data :
                            RatEq(data[i].y[t], <<simres.N[i][t], total>>)
                      /\ RatEq(C9_SumY(Len(data), t), RatOf(1))
                 ELSE \A i \in DOMAIN data : data[i].y[t] = NaN

\* C9 witness: a built figure whose result has an empty time step and a
\* populated one with both charge states present.
C9_Witness ==
    /\ data # << >>
    /\ \E t \in DOMAIN simres.t : C9_Total(Len(simres.N), t) = 0
    /\ \E t \in DOMAIN simres.t :
          \A i \in DOMAIN simres.N : simres.N[i][t] > 0
C7_Min(a) == CHOOSE v \in {a[i] : i \in DOMAIN a} : \A i \in DOMAIN a : v <= a[i]
C7_Max(a) == CHOOSE v \in {a[i] : i \in DOMAIN a} : \A i \in DOMAIN a : v >= a[i]

\* C7: with t the query time in seconds (time / 1000), the slice holds one
\* value per series, in order: y[first] when t is before the grid, y[last]
\* when t is after it, y[j] when t is the grid point x[j]; and it is never
\* outside the range of the series' samples.
C7_SliceClamped ==
    distr.done =>
        /\ Len(distr.y) = Len(csevo)
        /\ distr.x = [i \in 1..Len(csevo) |-> i - 1]
        /\ \A i \in DOMAIN csevo :
              LET x == csevo[i].x
                  y == csevo[i].y
                  t == <<time, 1000>>
                  v == distr.y[i]
              IN /\ RatLt(t, RatOf(x[1])) => RatEq(v, RatOf(y[1]))
                 /\ RatLt(RatOf(x[Len(x)]), t) => RatEq(v, RatOf(y[Len(y)]))
                 /\ \A j \in DOMAIN x : time = 1000 * x[j] => RatEq(v, RatOf(y[j]))
                 /\ RatLe(RatOf(C7_Min(y)), v) /\ RatLe(v, RatOf(C7_Max(y)))

\* C7 witness: a slice taken after the end of a grid whose last segment
\* rises: the value is the last sample, not the line run on.
C7_Witness ==
    /\ distr.done
    /\ csevo # << >>
    /\ LET x == csevo[1].x
           y == csevo[1].y
       IN /\ Len(x) >= 2
          /\ time > 1000 * x[Len(x)]
          /\ y[Len(y) - 1] < y[Len(y)]
          /\ RatEq(distr.y[1], RatOf(y[Len(y)]))

\* C8: every entry of the peak times is the grid time of the first sample at
\* which the series is maximal: no sample is larger, and every earlier one is
\* smaller.
C8_FirstMaximum ==
    highest.done =>
        /\ Len(highest.y) = Len(csevo)
        /\ highest.x = [i \in 1..Len(csevo) |-> i - 1]
        /\ \A i \in DOMAIN csevo :
              \E k \in DOMAIN csevo[i].x :
                  /\ highest.y[i] = csevo[i].x[k]
                  /\ \A j \in DOMAIN csevo[i].y : csevo[i].y[j] <= csevo[i].y[k]
                  /\ \A j \in 1..(k - 1) : csevo[i].y[j] < csevo[i].y[k]

\* C8 witness: a series whose maximum is taken twice, not at its first
\* sample, and one with a single maximum.
C8_Witness ==
    /\ highest.done
    /\ csevo # << >>
    /\ LET y == csevo[1].y
           z == csevo[2].y
       IN /\ Len(y) = 3
          /\ y[1] < y[2] /\ y[2] = y[3]
          /\ highest.y[1] = csevo[1].x[2]
          /\ z[1] < z[2] /\ z[3] < z[2]
          /\ highest.y[2] = csevo[2].x[2]
====
